---- MODULE Spec2Model ----
(***************************************************************************)
(* Model of adventure_engine.py: the in-memory session store               *)
(* ADVENTURE_SESSIONS and the four tools start_adventure, make_choice,     *)
(* show_status and reset_adventure, run as asyncio tasks.  A task is       *)
(* atomic between awaits; the only await that suspends is the backend      *)
(* call inside get_narrative_update (get_scene_image never suspends).      *)
(* Text is a sequence of tokens; an f-string is a concatenation.           *)
(***************************************************************************)
EXTENDS Integers, Sequences, FiniteSets, Bags, TLC

VARIABLES ADVENTURE_SESSIONS, heap, tasks, ev, started, advances,
          last_inv, scene, backend_calls

vars == <<ADVENTURE_SESSIONS, heap, tasks, ev, started, advances,
         last_inv, scene, backend_calls>>

\* ---------------------------------------------------------------- bounds
NumTasks == 2
MaxBackendCalls == 3
MaxPromptLen == 3

Users == {"u1", "u2"}
PlayerChoices == {"Run"}

\* ------------------------------------------------------------ text helpers
RECURSIVE Join(_, _)
Join(items, sep) ==
  IF Len(items) = 0 THEN <<>>
  ELSE IF Len(items) = 1 THEN <<items[1]>>
  ELSE <<items[1], sep>> \o Join(Tail(items), sep)

RECURSIVE QuotedItems(_)
QuotedItems(items) ==
  IF Len(items) = 0 THEN <<>>
  ELSE IF Len(items) = 1 THEN <<"'", items[1], "'">>
  ELSE <<"'", items[1], "'", ", ">> \o QuotedItems(Tail(items))

\* str() of a list of strings, as an f-string renders it
ListRepr(items) == <<"[">> \o QuotedItems(items) \o <<"]">>

Contains(text, part) ==
  \E i \in 0..(Len(text) - Len(part)) :
    \A j \in 1..Len(part) : text[i + j] = part[j]

IsPrefix(s, t) == Len(s) <= Len(t) /\ SubSeq(t, 1, Len(s)) = s

\* ------------------------------------------------------ urllib quote_plus
AlwaysSafe == {"a", "d", "k", "c", "v", "e", "r", "f", "1", "_", ".", "-", "~"}

HexOf(ch) ==
  CASE ch = "!" -> <<"%", "2", "1">>
    [] ch = "+" -> <<"%", "2", "B">>
    [] ch = "%" -> <<"%", "2", "5">>
    [] ch = "&" -> <<"%", "2", "6">>
    [] ch = "?" -> <<"%", "3", "F">>
    [] ch = "/" -> <<"%", "2", "F">>
    [] OTHER    -> <<"%", "2", "0">>

QuoteChar(ch) ==
  IF ch = " " THEN <<"+">>
  ELSE IF ch \in AlwaysSafe THEN <<ch>>
  ELSE HexOf(ch)

RECURSIVE quote_plus(_)
quote_plus(s) ==
  IF Len(s) = 0 THEN <<>> ELSE QuoteChar(Head(s)) \o quote_plus(Tail(s))

UrlTemplate == "https://via.placeholder.com/1024x1024.png?text="

\* the prompt pasted into the template as it is
get_scene_image_raw(prompt) == <<UrlTemplate>> \o prompt

get_scene_image(prompt) == <<UrlTemplate>> \o quote_plus(prompt)

\* ------------------------------------------------------- backend results
Keys == {"narrative", "choices", "image_prompt", "new_inventory"}

ChoicePool == <<"Look", "Run", "Wait", "Hide">>
ImagePrompt == <<"d", "k", " ", "c", "v", "!">>

Dict(keys, n, k, inv) ==
  [ok |-> TRUE, keys |-> keys, narrative |-> n,
   choices |-> SubSeq(ChoicePool, 1, k), image_prompt |-> ImagePrompt,
   new_inventory |-> inv]

\* json.loads raised, or the backend call itself raised
ParseFail == [ok |-> FALSE, keys |-> {}, narrative |-> "N1",
              choices |-> <<>>, image_prompt |-> <<>>, new_inventory |-> <<>>]

FullDicts ==
  { Dict(Keys, n, 3, inv) : n \in {"N1", "N2"}, inv \in {<<>>, <<"torch", "key">>} }

ShortDicts == { Dict(Keys, "N1", k, <<>>) : k \in {0, 1, 2, 4} }

PartialDicts ==
  { Dict(Keys \ {m}, "N2", 3, <<"torch", "key">>) : m \in Keys }

Responses == {ParseFail} \cup FullDicts \cup ShortDicts \cup PartialDicts

\* ------------------------------------------------------------- messages
initial_prompt ==
  "Start a new fantasy adventure for me in a mysterious, ancient forest."

AlreadyMsg(last_log) ==
  <<"You are already in an adventure! Your last update was: ">> \o last_log

MakeChoiceNoSessionMsg ==
  <<"You haven't started an adventure yet! Use the 'start_adventure' tool first.">>

ShowStatusNoSessionMsg_other == <<"You do not have an active adventure.">>

ShowStatusNoSessionMsg ==
  <<"You haven't started an adventure yet! Use the 'start_adventure' tool first.">>

EmptyInventoryMsg == <<"Your inventory is empty.">>

InventoryMsg(inventory) ==
  <<"Your inventory contains: ">> \o Join(inventory, ", ")

ResetDoneMsg ==
  <<"Your adventure has been reset. You can now start a new one by using the 'start_adventure' tool.">>

ResetNoneMsg_same == ResetDoneMsg

ResetNoneMsg == <<"You do not have an active adventure to reset.">>

PlayerRecord(choice) == <<"Player chose: ", choice>>

OptionsText(nd) ==
  <<"What do you do?\n", "1. ">> \o ListRepr(nd.choices)
    \o <<"\n", "2. ", nd.choices[2], "\n", "3. ", nd.choices[3], "\n",
         "4. Or, type your own action...">>

StartResponse(nd) ==
  <<"A new adventure begins!\n\n", nd.narrative, "\n\n", "Image: ">>
    \o get_scene_image(nd.image_prompt) \o <<"\n\n">> \o OptionsText(nd)

ChoiceResponse(nd) ==
  <<nd.narrative, "\n\n", "Image: ">>
    \o get_scene_image(nd.image_prompt) \o <<"\n\n">> \o OptionsText(nd)

Return(text) == [kind |-> "return", text |-> text]
Raise(err, what) == [kind |-> "raise", text |-> <<err, what>>]
Suspended == [kind |-> "suspend", text |-> <<>>]

\* formatting that accepts exactly three choices
FormatError_exact(nd) ==
  IF "choices" \notin nd.keys THEN "KeyError"
  ELSE IF Len(nd.choices) # 3 THEN "IndexError"
  ELSE ""

\* first failure of building response_str, "" when it formats
FormatError(nd) ==
  IF "choices" \notin nd.keys THEN "KeyError"
  ELSE IF Len(nd.choices) < 3 THEN "IndexError"
  ELSE ""

\* ---------------------------------------------------------------- state
\* ADVENTURE_SESSIONS[u] = NoSession: u is not a key of the dict; otherwise
\* the identity (index in heap) of the session dict stored under u.  A
\* suspended make_choice keeps a reference to its dict even after
\* reset_adventure removed it from ADVENTURE_SESSIONS; a dict nobody refers
\* to is reclaimed.  tasks is the bag of calls suspended in the backend.
NoSession == 0

ObjIds == 1..(Cardinality(Users) + NumTasks)

FreeCell == [story_log |-> <<>>, inventory |-> <<>>]

NoEvent == [op |-> "init", phase |-> "none", user |-> "u1",
            result |-> [kind |-> "none", text |-> <<>>], session |-> FreeCell,
            snapshot |-> <<>>, replaced |-> <<>>]

\* History: last_inv[u]: the new_inventory of the backend answer of the last
\* start_adventure or make_choice of u that returned its response.
NoneCompleted == [known |-> FALSE, inv |-> <<>>]

\* scene: the last call of get_scene_image, its prompt and the URL returned
NoScene == [done |-> FALSE, prompt |-> <<>>, url |-> <<>>]

SceneOf(prompt) ==
  [done |-> TRUE, prompt |-> prompt, url |-> get_scene_image(prompt)]

Init ==
  /\ ADVENTURE_SESSIONS = [u \in Users |-> NoSession]
  /\ heap = [o \in ObjIds |-> FreeCell]
  /\ tasks = EmptyBag
  /\ ev = NoEvent
  /\ started = [u \in Users |-> FALSE]
  /\ advances = [o \in ObjIds |-> 0]
  /\ last_inv = [u \in Users |-> NoneCompleted]
  /\ scene = NoScene
  /\ backend_calls = 0

HasSession(u) == ADVENTURE_SESSIONS[u] # NoSession

SessionOf(u) == heap[ADVENTURE_SESSIONS[u]]

Referenced(o, sessions, tks) ==
  \/ \E u \in Users : sessions[u] = o
  \/ \E k \in BagToSet(tks) : k.cur = o

Collect(h, sessions, tks) ==
  [o \in ObjIds |-> IF Referenced(o, sessions, tks) THEN h[o] ELSE FreeCell]

FreshId ==
  CHOOSE o \in ObjIds :
    /\ ~Referenced(o, ADVENTURE_SESSIONS, tasks)
    /\ \A p \in ObjIds : ~Referenced(p, ADVENTURE_SESSIONS, tasks) => o <= p

\* History, not program state.  started[u]: a start_adventure of u that
\* called the backend has returned its response and no reset_adventure of u
\* has run since.  advances[o]: the number of make_choice calls that returned
\* their response after writing to session o, or Spoiled once a make_choice
\* that raised has written to it.
Spoiled == -1

Completed(li, u, res, nd) ==
  IF res.kind = "return"
  THEN [li EXCEPT ![u] = [known |-> TRUE, inv |-> nd.new_inventory]]
  ELSE li

Live(a, h) == [o \in ObjIds |-> IF h[o] = FreeCell THEN 0 ELSE a[o]]

\* what a client can observe of the store: per user, the stored dict or none
Absent == [present |-> FALSE, story_log |-> <<>>, inventory |-> <<>>]

StoreView ==
  [u \in Users |->
     IF HasSession(u)
     THEN [present |-> TRUE, story_log |-> SessionOf(u).story_log,
           inventory |-> SessionOf(u).inventory]
     ELSE Absent]

LastLog_first(story_log) == story_log[1]

LastLog(story_log) == story_log[Len(story_log)]

Event(op, phase, u, result, session) ==
  [op |-> op, phase |-> phase, user |-> u, result |-> result,
   session |-> session, snapshot |-> <<>>, replaced |-> <<>>]

\* -------------------------------------------------------- start_adventure
\* lines 150-151 / 183-184: errors raised before anything is written
FetchError(nd) ==
  IF ~nd.ok THEN "JSONDecodeError"
  ELSE IF "image_prompt" \notin nd.keys THEN "image_prompt"
  ELSE ""

\* lines 153-156: the dict literal is evaluated before it is stored
NewSessionError(nd) ==
  IF "narrative" \notin nd.keys THEN "narrative"
  ELSE IF "new_inventory" \notin nd.keys THEN "new_inventory"
  ELSE ""

NewSession_noinv(nd) ==
  [story_log |-> <<(<<nd.narrative>>)>>, inventory |-> <<>>]

NewSession_empty(nd) == [story_log |-> <<>>, inventory |-> nd.new_inventory]

NewSession(nd) ==
  [story_log |-> <<(<<nd.narrative>>)>>, inventory |-> nd.new_inventory]

\* the result of a call that got its backend answer nd
TurnResult(nd, text) ==
  IF ~nd.ok THEN Raise("JSONDecodeError", "response")
  ELSE IF FetchError(nd) # "" THEN Raise("KeyError", FetchError(nd))
  ELSE IF NewSessionError(nd) # "" THEN Raise("KeyError", NewSessionError(nd))
  ELSE IF FormatError(nd) # "" THEN Raise(FormatError(nd), "choices")
  ELSE Return(text)

StartTask(u) ==
  [op |-> "start", user |-> u, choice |-> initial_prompt, cur |-> NoSession,
   req_log |-> <<>>]

start_adventure_call(u) ==
  /\ IF HasSession(u)
     THEN /\ ev' = Event("start", "call", u,
                     Return(AlreadyMsg(LastLog(SessionOf(u).story_log))),
                     FreeCell)
          /\ UNCHANGED <<tasks, backend_calls>>
     ELSE /\ backend_calls < MaxBackendCalls
          /\ BagCardinality(tasks) < NumTasks
          /\ backend_calls' = backend_calls + 1
          /\ tasks' = tasks (+) SetToBag({StartTask(u)})
          /\ ev' = Event("start", "call", u, Suspended, FreeCell)
  /\ UNCHANGED <<ADVENTURE_SESSIONS, heap, started, advances, last_inv, scene>>

\* a store that keeps the session it already has for the user
StoreSession_keep(sessions, u, new) ==
  IF sessions[u] # NoSession THEN sessions ELSE [sessions EXCEPT ![u] = new]

\* line 153: ADVENTURE_SESSIONS[puch_user_id] = {...}
StoreSession(sessions, u, new) == [sessions EXCEPT ![u] = new]

start_adventure_resume(k, nd) ==
  /\ BagIn(k, tasks)
  /\ k.op = "start"
  /\ LET u == k.user
         stored == FetchError(nd) = "" /\ NewSessionError(nd) = ""
         res == TurnResult(nd, StartResponse(nd))
         new == FreshId
         sessions == IF stored
                     THEN StoreSession(ADVENTURE_SESSIONS, u, new)
                     ELSE ADVENTURE_SESSIONS
         h == IF stored THEN [heap EXCEPT ![new] = NewSession(nd)] ELSE heap
         rest == tasks (-) SetToBag({k})
     IN /\ ADVENTURE_SESSIONS' = sessions
        /\ tasks' = rest
        /\ heap' = Collect(h, sessions, rest)
        /\ ev' = [Event("start", "resume", u, res, FreeCell)
                    EXCEPT !.replaced = IF stored /\ HasSession(u)
                                        THEN SessionOf(u).story_log
                                        ELSE <<>>]
        /\ started' = IF res.kind = "return"
                      THEN [started EXCEPT ![u] = TRUE] ELSE started
        /\ advances' = Live(advances, heap')
        /\ last_inv' = Completed(last_inv, u, res, nd)
        /\ scene' = IF FetchError(nd) = "" THEN SceneOf(nd.image_prompt)
                     ELSE scene
  /\ UNCHANGED backend_calls

\* ------------------------------------------------------------ make_choice
\* lines 186-188, stopping at the first missing key
\* the narrative appended before the player's record
AppendTurn_swapped(session, choice, nd) ==
  LET s1 == [session EXCEPT !.story_log = Append(@, <<nd.narrative>>)]
      s2 == [s1 EXCEPT !.story_log = Append(@, PlayerRecord(choice))]
      s3 == [s2 EXCEPT !.inventory = nd.new_inventory]
  IN IF "narrative" \notin nd.keys THEN session
     ELSE IF "new_inventory" \notin nd.keys THEN s2
     ELSE s3

\* the log rebuilt from the turn instead of extended
AppendTurn_replace(session, choice, nd) ==
  LET s1 == [session EXCEPT !.story_log = <<PlayerRecord(choice)>>]
      s2 == [s1 EXCEPT !.story_log = Append(@, <<nd.narrative>>)]
      s3 == [s2 EXCEPT !.inventory = nd.new_inventory]
  IN IF "narrative" \notin nd.keys THEN s1
     ELSE IF "new_inventory" \notin nd.keys THEN s2
     ELSE s3

\* the turn written over whatever followed the first entry
AppendTurn_drop(session, choice, nd) ==
  LET s1 == [session EXCEPT !.story_log =
                              <<@[1], PlayerRecord(choice)>>]
      s2 == [s1 EXCEPT !.story_log = Append(@, <<nd.narrative>>)]
      s3 == [s2 EXCEPT !.inventory = nd.new_inventory]
  IN IF "narrative" \notin nd.keys THEN s1
     ELSE IF "new_inventory" \notin nd.keys THEN s2
     ELSE s3

\* only the player's record appended, the narrative left out
AppendTurn_single(session, choice, nd) ==
  LET s1 == [session EXCEPT !.story_log = Append(@, PlayerRecord(choice))]
      s3 == [s1 EXCEPT !.inventory = nd.new_inventory]
  IN IF "narrative" \notin nd.keys THEN s1
     ELSE IF "new_inventory" \notin nd.keys THEN s1
     ELSE s3

AppendTurn(session, choice, nd) ==
  LET s1 == [session EXCEPT !.story_log = Append(@, PlayerRecord(choice))]
      s2 == [s1 EXCEPT !.story_log = Append(@, <<nd.narrative>>)]
      s3 == [s2 EXCEPT !.inventory = nd.new_inventory]
  IN IF "narrative" \notin nd.keys THEN s1
     ELSE IF "new_inventory" \notin nd.keys THEN s2
     ELSE s3

ChoiceTask(u, c) ==
  [op |-> "make_choice", user |-> u, choice |-> c,
   cur |-> ADVENTURE_SESSIONS[u], req_log |-> SessionOf(u).story_log]

make_choice_call(u, c) ==
  /\ IF ~HasSession(u)
     THEN /\ ev' = Event("make_choice", "call", u,
                     Return(MakeChoiceNoSessionMsg), FreeCell)
          /\ UNCHANGED <<tasks, backend_calls>>
     ELSE /\ backend_calls < MaxBackendCalls
          /\ BagCardinality(tasks) < NumTasks
          /\ backend_calls' = backend_calls + 1
          /\ tasks' = tasks (+) SetToBag({ChoiceTask(u, c)})
          /\ ev' = Event("make_choice", "call", u, Suspended, FreeCell)
  /\ UNCHANGED <<ADVENTURE_SESSIONS, heap, started, advances, last_inv, scene>>

\* the session looked up again in the store after the backend call
current_session_lookup(k) ==
  IF HasSession(k.user) THEN ADVENTURE_SESSIONS[k.user] ELSE k.cur

\* line 182: the local name bound to the session dict before the await
current_session(k) == k.cur

make_choice_resume(k, nd) ==
  /\ BagIn(k, tasks)
  /\ k.op = "make_choice"
  /\ LET written == IF FetchError(nd) # "" THEN heap[current_session(k)]
                    ELSE AppendTurn(heap[current_session(k)], k.choice, nd)
         rest == tasks (-) SetToBag({k})
     IN /\ tasks' = rest
        /\ heap' = Collect([heap EXCEPT ![current_session(k)] = written],
                           ADVENTURE_SESSIONS, rest)
        /\ ev' = [Event("make_choice", "resume", k.user,
                        TurnResult(nd, ChoiceResponse(nd)), written)
                    EXCEPT !.snapshot = k.req_log]
        /\ advances' =
             Live([advances EXCEPT ![k.cur] =
                     IF written = heap[k.cur] THEN @
                     ELSE IF TurnResult(nd, <<>>).kind = "return" /\ @ # Spoiled
                          THEN @ + 1
                     ELSE Spoiled],
                  heap')
        /\ last_inv' = Completed(last_inv, k.user,
                                 TurnResult(nd, ChoiceResponse(nd)), nd)
        /\ scene' = IF FetchError(nd) = "" THEN SceneOf(nd.image_prompt)
                     ELSE scene
  /\ UNCHANGED <<ADVENTURE_SESSIONS, started, backend_calls>>

\* ------------------------------------------------------------ show_status
StatusMsg(inventory) ==
  IF Len(inventory) = 0 THEN EmptyInventoryMsg ELSE InventoryMsg(inventory)

show_status(u) ==
  /\ ev' = Event("show_status", "call", u,
                 IF ~HasSession(u) THEN Return(ShowStatusNoSessionMsg)
                 ELSE Return(StatusMsg(SessionOf(u).inventory)),
                 FreeCell)
  /\ UNCHANGED <<ADVENTURE_SESSIONS, heap, tasks, started, advances,
                 last_inv, scene, backend_calls>>

\* -------------------------------------------------------- reset_adventure
DeleteSession_kept(sessions, u) == sessions

\* a reset that clears the whole store
DeleteSession_all(sessions, u) == [v \in Users |-> NoSession]

DeleteSession(sessions, u) == [sessions EXCEPT ![u] = NoSession]

reset_adventure(u) ==
  /\ IF HasSession(u)
     THEN /\ ADVENTURE_SESSIONS' = DeleteSession(ADVENTURE_SESSIONS, u)
          /\ ev' = Event("reset", "call", u, Return(ResetDoneMsg), FreeCell)
     ELSE /\ UNCHANGED ADVENTURE_SESSIONS
          /\ ev' = Event("reset", "call", u, Return(ResetNoneMsg), FreeCell)
  /\ heap' = Collect(heap, ADVENTURE_SESSIONS', tasks)
  /\ started' = [started EXCEPT ![u] = FALSE]
  /\ advances' = Live(advances, heap')
  /\ UNCHANGED <<tasks, last_inv, scene, backend_calls>>

Next ==
  \/ \E u \in Users : start_adventure_call(u)
  \/ \E k \in BagToSet(tasks), nd \in Responses : start_adventure_resume(k, nd)
  \/ \E u \in Users, c \in PlayerChoices : make_choice_call(u, c)
  \/ \E k \in BagToSet(tasks), nd \in Responses : make_choice_resume(k, nd)
  \/ \E u \in Users : show_status(u)
  \/ \E u \in Users : reset_adventure(u)

Spec == Init /\ [][Next]_vars

\* ---------------------- the same program with a backend that answers with
\* unparseable text or with a dict of all four keys (any number of choices)
KeyedResponses == {ParseFail} \cup FullDicts \cup ShortDicts

NextKeyed ==
  \/ \E u \in Users : start_adventure_call(u)
  \/ \E k \in BagToSet(tasks), nd \in KeyedResponses :
       start_adventure_resume(k, nd)
  \/ \E u \in Users, c \in PlayerChoices : make_choice_call(u, c)
  \/ \E k \in BagToSet(tasks), nd \in KeyedResponses :
       make_choice_resume(k, nd)
  \/ \E u \in Users : show_status(u)
  \/ \E u \in Users : reset_adventure(u)

SpecKeyed == Init /\ [][NextKeyed]_vars

\* ------------------------------------------- get_scene_image on its own
\* Prompts over a small alphabet of safe and reserved characters; the
\* adapter is applied once to each.
PromptChars == {"a", "-", " ", "!", "+", "%", "&", "?", "/"}

Prompts == UNION { [1..n -> PromptChars] : n \in 0..MaxPromptLen }

InitImage ==
  /\ ADVENTURE_SESSIONS = [u \in Users |-> NoSession]
  /\ heap = [o \in ObjIds |-> FreeCell]
  /\ tasks = EmptyBag
  /\ ev = NoEvent
  /\ started = [u \in Users |-> FALSE]
  /\ advances = [o \in ObjIds |-> 0]
  /\ last_inv = [u \in Users |-> NoneCompleted]
  /\ backend_calls = 0
  /\ scene \in { [NoScene EXCEPT !.prompt = p] : p \in Prompts }

get_scene_image_call ==
  /\ ~scene.done
  /\ scene' = SceneOf(scene.prompt)
  /\ UNCHANGED <<ADVENTURE_SESSIONS, heap, tasks, ev, started, advances,
                 last_inv, backend_calls>>

NextImage == get_scene_image_call

SpecImage == InitImage /\ [][NextImage]_vars

\* ------------------------------------------------------------------------
\* Properties
\* ------------------------------------------------------------------------
Failed(e) == e.phase = "resume" /\ e.result.kind = "raise"
Succeeded(e) == e.phase = "resume" /\ e.result.kind = "return"
Stored(session) ==
  [present |-> TRUE, story_log |-> session.story_log,
   inventory |-> session.inventory]

\* C1: a start_adventure or make_choice call that raises (unparseable
\* response, missing key, fewer than 3 choices) leaves the Session Store
\* exactly as it was: no session created, story_log and inventory unchanged.
C1_FailureLeavesStore ==
  [][Failed(ev') => StoreView' = StoreView]_vars

\* C2: per user, session existence follows NO_SESSION/ACTIVE: initially
\* NO_SESSION; a start that returns its response ends ACTIVE; make_choice and
\* show_status never change existence; reset ends NO_SESSION; existence
\* changes only NO_SESSION -> ACTIVE by a start of that user and
\* ACTIVE -> NO_SESSION by a reset of that user.
C2_StateMachine ==
  /\ \A u \in Users : ~HasSession(u)
  /\ [][\A u \in Users :
          /\ (ev'.user = u /\ ev'.op = "start" /\ ev'.result.kind = "return")
               => HasSession(u)'
          /\ (ev'.user = u /\ ev'.op \in {"make_choice", "show_status"})
               => (HasSession(u)' = HasSession(u))
          /\ (ev'.user = u /\ ev'.op = "reset") => ~HasSession(u)'
          /\ (HasSession(u)' # HasSession(u))
               => /\ ev'.user = u
                  /\ IF HasSession(u) THEN ev'.op = "reset"
                     ELSE ev'.op = "start"]_vars

C2_Witness ==
  /\ ev.op = "reset"
  /\ ev.result = Return(ResetDoneMsg)
  /\ ~HasSession(ev.user)
  /\ \E v \in Users : HasSession(v)

\* C3: for a user with no session, make_choice and show_status return the
\* same fixed "haven't started" message, do not call the backend and leave
\* the Session Store unchanged.
C3_NoSessionRejected ==
  [][\A u \in Users :
       (/\ ~HasSession(u)
        /\ ev'.user = u
        /\ ev'.phase = "call"
        /\ ev'.op \in {"make_choice", "show_status"})
       => /\ ev'.result = Return(MakeChoiceNoSessionMsg)
          /\ ev'.result = Return(ShowStatusNoSessionMsg)
          /\ tasks' = tasks
          /\ backend_calls' = backend_calls
          /\ StoreView' = StoreView
          /\ heap' = heap]_vars

C3_Witness ==
  /\ ev.op = "show_status"
  /\ ~HasSession(ev.user)
  /\ ev.result = Return(ShowStatusNoSessionMsg)
  /\ \E v \in Users : HasSession(v)

\* C4: a start_adventure that was called with no session and whose backend
\* call succeeds called the backend with an empty prior log and stores for
\* that user exactly the session story_log = [narrative], inventory =
\* new_inventory, leaving the other users' entries alone.
C4_StartCreatesSession ==
  [][(ev'.op = "start" /\ Succeeded(ev')) =>
     \A k \in BagToSet(tasks), nd \in Responses :
       (/\ k.op = "start"
        /\ k.user = ev'.user
        /\ ev'.result = TurnResult(nd, StartResponse(nd))
        /\ start_adventure_resume(k, nd))
       => /\ k.req_log = <<>>
          /\ StoreView'[k.user] =
               [present |-> TRUE, story_log |-> <<(<<nd.narrative>>)>>,
                inventory |-> nd.new_inventory]
          /\ Len(StoreView'[k.user].story_log) = 1
          /\ \A v \in Users \ {k.user} : StoreView'[v] = StoreView[v]]_vars

C4_Witness ==
  /\ ev.op = "start"
  /\ Succeeded(ev)
  /\ HasSession(ev.user)
  /\ SessionOf(ev.user).story_log = <<(<<"N2">>)>>
  /\ SessionOf(ev.user).inventory = <<"torch", "key">>

\* C5: a start_adventure for a user whose earlier start returned its response
\* (no reset since) changes neither story_log nor inventory, does not call
\* the backend, and returns a message containing the last story_log entry.
C5_DuplicateStart ==
  [][\A u \in Users :
       (started[u] /\ ev'.user = u /\ ev'.op = "start" /\ ev'.phase = "call")
       => /\ HasSession(u)
          /\ ev'.result.kind = "return"
          /\ Contains(ev'.result.text,
                      SessionOf(u).story_log[Len(SessionOf(u).story_log)])
          /\ StoreView' = StoreView
          /\ heap' = heap
          /\ tasks' = tasks
          /\ backend_calls' = backend_calls]_vars

C5_Witness ==
  /\ ev.op = "start"
  /\ ev.phase = "call"
  /\ ev.result.kind = "return"
  /\ started[ev.user]
  /\ Len(SessionOf(ev.user).story_log) = 3
  /\ ev.result.text = AlreadyMsg(SessionOf(ev.user).story_log[3])

\* C6: a make_choice that returns its response appends to its session's
\* story_log exactly "Player chose: <choice>" and then the new narrative,
\* keeps the earlier entries and replaces the inventory by new_inventory;
\* a stored session written only by k such calls has a log of length 1+2k.
C6_AdvanceAppendsTwo ==
  /\ [](\A u \in Users :
          (HasSession(u) /\ advances[ADVENTURE_SESSIONS[u]] # Spoiled)
          => Len(SessionOf(u).story_log)
               = 1 + 2 * advances[ADVENTURE_SESSIONS[u]])
  /\ [][(ev'.op = "make_choice" /\ Succeeded(ev')) =>
        \A k \in BagToSet(tasks), nd \in Responses :
          (/\ k.op = "make_choice"
           /\ k.user = ev'.user
           /\ ev'.result = TurnResult(nd, ChoiceResponse(nd))
           /\ make_choice_resume(k, nd))
          => /\ ev'.session.story_log =
                  heap[k.cur].story_log
                    \o << <<"Player chose: ", k.choice>>, <<nd.narrative>> >>
             /\ ev'.session.inventory = nd.new_inventory
             /\ (ADVENTURE_SESSIONS[k.user] = k.cur
                   => StoreView'[k.user] = Stored(ev'.session))]_vars

C6_Witness ==
  /\ ev.op = "make_choice"
  /\ Succeeded(ev)
  /\ HasSession(ev.user)
  /\ advances[ADVENTURE_SESSIONS[ev.user]] = 2
  /\ Len(SessionOf(ev.user).story_log) = 5
  /\ SessionOf(ev.user) = ev.session

\* C7: reset_adventure on an existing session deletes it and confirms, and a
\* show_status right after it gets the no-session message; on a user with no
\* session it changes nothing and returns a different, no-op message; a
\* reset right after a reset changes nothing and returns the no-op message.
C7_Reset ==
  [][\A u \in Users :
       /\ (ev'.op = "reset" /\ ev'.user = u)
            => /\ ~HasSession(u)'
               /\ \A v \in Users \ {u} : StoreView'[v] = StoreView[v]
               /\ HasSession(u) => ev'.result = Return(ResetDoneMsg)
               /\ ~HasSession(u)
                    => /\ ev'.result = Return(ResetNoneMsg)
                       /\ StoreView' = StoreView
               /\ ResetNoneMsg # ResetDoneMsg
       /\ (ev.op = "reset" /\ ev.user = u
             /\ ev'.op = "show_status" /\ ev'.user = u)
            => ev'.result = Return(ShowStatusNoSessionMsg)
       /\ (ev.op = "reset" /\ ev.user = u
             /\ ev'.op = "reset" /\ ev'.user = u)
            => /\ ev'.result = Return(ResetNoneMsg)
               /\ StoreView' = StoreView]_vars

C7_Witness ==
  /\ ev.op = "reset"
  /\ ev.result = Return(ResetNoneMsg)
  /\ backend_calls > 0
  /\ \E v \in Users : HasSession(v)

\* C8: a user has a session only if a start_adventure for that user returned
\* its response and no reset_adventure for that user has run since.
C8_SessionOnlyAfterStart ==
  \A u \in Users : HasSession(u) => started[u]

\* C9 as stated: with no reset of the user in the step, the user's stored
\* story_log before is a prefix of the one after.
C9_LogAppendOnly ==
  [][\A u \in Users :
       (HasSession(u) /\ ~(ev'.op = "reset" /\ ev'.user = u))
       => /\ HasSession(u)'
          /\ IsPrefix(StoreView[u].story_log, StoreView'[u].story_log)]_vars

\* C9 amended: as long as the user's stored session is the same record, its
\* story_log before is a prefix of the one after; the record stored for a
\* user changes only by a reset_adventure of that user or by a
\* start_adventure of that user storing a new session.
C9_LogAppendOnlyPerRecord ==
  [][\A u \in Users :
       /\ (HasSession(u) /\ ADVENTURE_SESSIONS'[u] = ADVENTURE_SESSIONS[u])
            => IsPrefix(StoreView[u].story_log, StoreView'[u].story_log)
       /\ ADVENTURE_SESSIONS'[u] # ADVENTURE_SESSIONS[u]
            => /\ ev'.user = u
               /\ \/ ev'.op = "reset"
                  \/ ev'.op = "start" /\ ev'.phase = "resume"]_vars

C9_Witness ==
  /\ ev.op = "make_choice"
  /\ ev.phase = "resume"
  /\ HasSession(ev.user)
  /\ Len(SessionOf(ev.user).story_log) = 3
  /\ \E k \in BagToSet(tasks) : k.op = "start" /\ k.user = ev.user

\* C10: every session in the Session Store has a non-empty story_log, so
\* story_log[-1] of a duplicate start is always defined.
C10_LogNeverEmpty ==
  \A u \in Users : HasSession(u) => Len(SessionOf(u).story_log) >= 1

C10_Witness ==
  /\ ev.op = "start"
  /\ ev.phase = "call"
  /\ ev.result.kind = "return"
  /\ HasSession(ev.user)
  /\ Contains(ev.result.text,
              SessionOf(ev.user).story_log[Len(SessionOf(ev.user).story_log)])
  /\ ~started[ev.user]

\* C11: show_status on an active session never changes the Session Store,
\* returns the "inventory is empty" message exactly when the stored inventory
\* is empty and otherwise lists its items in order, and the inventory it
\* reports is the new_inventory of the last start_adventure or make_choice of
\* that user that completed.
C11_StatusReportsInventory ==
  [][\A u \in Users :
       (ev'.op = "show_status" /\ ev'.user = u /\ HasSession(u))
       => LET inv == SessionOf(u).inventory
              text == ev'.result.text
          IN /\ StoreView' = StoreView
             /\ ev'.result.kind = "return"
             /\ (text = <<"Your inventory is empty.">>) <=> (inv = <<>>)
             /\ inv # <<>>
                  => /\ Len(text) = 2 * Len(inv)
                     /\ text[1] = "Your inventory contains: "
                     /\ \A i \in 1..Len(inv) : text[2 * i] = inv[i]
                     /\ \A i \in 1..(Len(inv) - 1) : text[2 * i + 1] = ", "
             /\ last_inv[u].known
             /\ inv = last_inv[u].inv]_vars

Occurrences(text, token) == Cardinality({j \in 1..Len(text) : text[j] = token})

\* C12: the response of every start_adventure and make_choice that returns
\* lists the backend choices as numbered options: option 1 shows the first
\* choice, option 2 the second, option 3 the third, each shown once.
C12_OptionsListChoices ==
  [][Succeeded(ev') =>
     \A k \in BagToSet(tasks), nd \in Responses :
       (/\ k.user = ev'.user
        /\ \/ start_adventure_resume(k, nd)
           \/ make_choice_resume(k, nd))
       => /\ Contains(ev'.result.text,
                      <<"1. ", nd.choices[1], "\n", "2. ", nd.choices[2], "\n",
                        "3. ", nd.choices[3], "\n">>)
          /\ \A i \in 1..3 :
               Occurrences(ev'.result.text, nd.choices[i]) = 1]_vars

\* urllib.parse.unquote_plus on the modelled alphabet
CharOf(h1, h2) ==
  CASE h1 = "2" /\ h2 = "1" -> "!"
    [] h1 = "2" /\ h2 = "B" -> "+"
    [] h1 = "2" /\ h2 = "5" -> "%"
    [] h1 = "2" /\ h2 = "6" -> "&"
    [] h1 = "3" /\ h2 = "F" -> "?"
    [] h1 = "2" /\ h2 = "F" -> "/"
    [] h1 = "2" /\ h2 = "0" -> " "
    [] OTHER -> "#"

RECURSIVE UnquotePlus(_)
UnquotePlus(q) ==
  IF Len(q) = 0 THEN <<>>
  ELSE IF q[1] = "+" THEN <<" ">> \o UnquotePlus(Tail(q))
  ELSE IF q[1] = "%" /\ Len(q) >= 3
       THEN <<CharOf(q[2], q[3])>> \o UnquotePlus(SubSeq(q, 4, Len(q)))
  ELSE <<q[1]>> \o UnquotePlus(Tail(q))

Unreserved == {"a", "d", "k", "c", "v", "-"}
QueryChars == Unreserved \cup {"+", "%", "0", "1", "2", "3", "5", "6", "B", "F"}

\* C13: the URL get_scene_image returns is the fixed placeholder template
\* followed by the encoded prompt: the query holds no literal space, no '!'
\* and no other reserved character of the prompt unencoded, and decoding it
\* gives the prompt back (so the URL is determined by, and determines, the
\* prompt).
C13_SceneImageUrl ==
  scene.done =>
    LET query == Tail(scene.url)
    IN /\ Len(scene.url) >= 1
       /\ scene.url[1] = "https://via.placeholder.com/1024x1024.png?text="
       /\ \A i \in 1..Len(query) :
            /\ query[i] # " "
            /\ query[i] # "!"
            /\ query[i] \in QueryChars
       /\ UnquotePlus(query) = scene.prompt
       /\ Len(query) >= Len(scene.prompt)

C13_Witness ==
  /\ scene.done
  /\ scene.prompt = <<"a", " ", "!">>
  /\ Tail(scene.url) = <<"a", "+", "%", "2", "1">>

\* what event e shows of the answer nd it was produced from: the error it
\* raised, or the narrative its response starts with
Shows(e, nd) ==
  /\ e.result.kind = TurnResult(nd, <<>>).kind
  /\ e.result.kind = "raise" => e.result = TurnResult(nd, <<>>)
  /\ e.result.kind = "return" =>
       nd.narrative = e.result.text[IF e.op = "start" THEN 2 ELSE 1]

\* a make_choice k that returns with answer nd in this step, right after
\* another make_choice returned on the same session record, and k had
\* passed its session check before that one wrote
SecondOfOverlap(k, nd) ==
  /\ ev.op = "make_choice"
  /\ Succeeded(ev)
  /\ k.op = "make_choice"
  /\ k.user = ev'.user
  /\ ev.session = heap[k.cur]
  /\ k.req_log # heap[k.cur].story_log
  /\ Shows(ev', nd)
  /\ ev'.result.kind = "return"
  /\ make_choice_resume(k, nd)

\* C14 as stated: of two overlapping make_choice calls both read the same
\* story_log snapshot and the second write replaces the log, so that after
\* both the log is the snapshot plus only one of the two turns.
C14_SecondWriteWins ==
  [][(ev'.op = "make_choice" /\ Succeeded(ev')) =>
     \A k \in BagToSet(tasks), nd \in Responses :
       SecondOfOverlap(k, nd)
       => /\ ev.snapshot = k.req_log
          /\ ev'.session.story_log =
               k.req_log \o << <<"Player chose: ", k.choice>>, <<nd.narrative>> >>]_vars

\* C14 amended: each of two overlapping make_choice calls read the log as it
\* was at its own session check, and both append to the same list: after
\* both returned the log holds both turns, the later one appended after the
\* earlier one (at least four entries more than either snapshot); only the
\* inventory is the last writer's.
C14_OverlapKeepsBothTurns ==
  [][(ev'.op = "make_choice" /\ Succeeded(ev')) =>
     \A k \in BagToSet(tasks), nd \in Responses :
       SecondOfOverlap(k, nd)
       => LET before == heap[k.cur].story_log
              after == ev'.session.story_log
          IN /\ IsPrefix(k.req_log, before)
             /\ IsPrefix(ev.snapshot, before)
             /\ after = before
                  \o << <<"Player chose: ", k.choice>>, <<nd.narrative>> >>
             /\ SubSeq(after, 1, Len(after) - 2) = ev.session.story_log
             /\ Len(after) >= Len(k.req_log) + 4
             /\ Len(after) >= Len(ev.snapshot) + 4
             /\ ev'.session.inventory = nd.new_inventory]_vars

C14_Witness ==
  /\ ev.op = "make_choice"
  /\ Succeeded(ev)
  /\ HasSession(ev.user)
  /\ SessionOf(ev.user) = ev.session
  /\ ev.snapshot = <<(<<"N1">>)>>
  /\ ev.session.story_log =
       << <<"N1">>, <<"Player chose: ", "Run">>, <<"N1">>,
          <<"Player chose: ", "Run">>, <<"N2">> >>

\* C15: a start_adventure or make_choice call whose backend result (a dict
\* with all four keys) has 0, 1 or 2 choices raises an out-of-range error
\* and returns no response text; a result with 3 or more choices never
\* fails with that error, and returns its response when all keys are there.
C15_ShortChoicesFail ==
  [][ev'.phase = "resume" =>
     \A nd \in Responses :
       (nd.ok /\ "choices" \in nd.keys /\ Shows(ev', nd)) =>
       \A k \in BagToSet(tasks) :
       (/\ k.op = ev'.op
        /\ k.user = ev'.user
        /\ \/ start_adventure_resume(k, nd)
           \/ make_choice_resume(k, nd))
       => /\ (nd.keys = Keys /\ Len(nd.choices) < 3)
               => ev'.result = [kind |-> "raise",
                                text |-> <<"IndexError", "choices">>]
          /\ Len(nd.choices) >= 3 => ev'.result.text[1] # "IndexError"
          /\ (nd.keys = Keys /\ Len(nd.choices) >= 3)
               => /\ ev'.result.kind = "return"
                  /\ Contains(ev'.result.text,
                              <<"2. ", nd.choices[2], "\n",
                                "3. ", nd.choices[3], "\n">>)]_vars

C15_Witness ==
  /\ ev.op = "make_choice"
  /\ ev.phase = "resume"
  /\ ev.result = [kind |-> "raise", text |-> <<"IndexError", "choices">>]
  /\ HasSession(ev.user)

IsNarrative(entry) == Len(entry) = 1 /\ entry[1] \in {"N1", "N2"}
IsPlayerRecord(entry) ==
  Len(entry) = 2 /\ entry[1] = "Player chose: " /\ entry[2] \in PlayerChoices

Alternating(log) ==
  /\ Len(log) % 2 = 1
  /\ \A i \in 1..Len(log) :
       IF i % 2 = 1 THEN IsNarrative(log[i]) ELSE IsPlayerRecord(log[i])

\* C16: with backend answers that fail to parse or carry all four keys,
\* every stored story_log always has odd length with narratives at even
\* 0-based positions and "Player chose: ..." records at odd ones, and a
\* resuming make_choice puts its record and its narrative next to each
\* other at the end of the log it finds, in one step.
C16_LogAlternates ==
  /\ [](\A u \in Users : HasSession(u) => Alternating(SessionOf(u).story_log))
  /\ [][(ev'.op = "make_choice" /\ ev'.phase = "resume") =>
        \A k \in BagToSet(tasks), nd \in KeyedResponses :
          (/\ k.op = "make_choice"
           /\ k.user = ev'.user
           /\ nd.ok
           /\ Shows(ev', nd)
           /\ make_choice_resume(k, nd))
          => LET before == heap[k.cur].story_log
                 after == ev'.session.story_log
             IN /\ Len(after) = Len(before) + 2
                /\ SubSeq(after, 1, Len(before)) = before
                /\ after[Len(before) + 1] = <<"Player chose: ", k.choice>>
                /\ after[Len(before) + 2] = <<nd.narrative>>
                /\ Alternating(after)]_vars

C16_Witness ==
  \E u \in Users :
    /\ HasSession(u)
    /\ ev.op = "make_choice"
    /\ ev.user = u
    /\ Succeeded(ev)
    /\ ev.session = SessionOf(u)
    /\ Len(ev.snapshot) = 1
    /\ Len(SessionOf(u).story_log) = 5
    /\ SessionOf(u).story_log[3] = <<"N2">>
    /\ SessionOf(u).story_log[5] = <<"N1">>

\* C17: a make_choice that resumes after its session was taken out of the
\* store (deleted by reset_adventure, a later start_adventure or not) leaves
\* the store as it is: the user's session is not re-created and a newer
\* session of the user is not modified.  Its turn goes to the old record
\* only, and with a complete answer it still returns the turn response.
C17_DetachedAdvance ==
  [][(ev'.op = "make_choice" /\ ev'.phase = "resume") =>
     \A k \in BagToSet(tasks), nd \in Responses :
       (/\ k.op = "make_choice"
        /\ k.user = ev'.user
        /\ ADVENTURE_SESSIONS[k.user] # k.cur
        /\ Shows(ev', nd)
        /\ make_choice_resume(k, nd))
       => /\ StoreView' = StoreView
          /\ HasSession(k.user)' <=> HasSession(k.user)
          /\ nd \in FullDicts
               => /\ ev'.result.kind = "return"
                  /\ IsPrefix(<<nd.narrative, "\n\n", "Image: ">>,
                              ev'.result.text)
                  /\ ev'.session.story_log =
                       heap[k.cur].story_log
                         \o << <<"Player chose: ", k.choice>>, <<nd.narrative>> >>
                  /\ ev'.session.inventory = nd.new_inventory]_vars

\* a detached advance has returned its response and the user has no session
C17_Witness ==
  /\ ev.op = "make_choice"
  /\ Succeeded(ev)
  /\ ~HasSession(ev.user)
  /\ started[ev.user] = FALSE
  /\ Len(ev.session.story_log) = 3
  /\ tasks = EmptyBag

\* C18: a start_adventure that passed the existence check and resumes, with
\* a complete answer, when another start_adventure has stored a session for
\* the user in the meantime: both have called the backend (this one with an
\* empty log), it returns the "new adventure" response, and the user's one
\* entry in the store is now the session of this call, whatever the earlier
\* call and any advance completed in between had stored.
C18_OverlappingStarts ==
  [][(ev'.op = "start" /\ ev'.phase = "resume") =>
     \A k \in BagToSet(tasks), nd \in FullDicts :
       (/\ k.op = "start"
        /\ k.user = ev'.user
        /\ HasSession(k.user)
        /\ ev'.result.kind = "return"
        /\ start_adventure_resume(k, nd))
       => /\ backend_calls >= 2
          /\ k.req_log = <<>>
          /\ ev'.result.kind = "return"
          /\ IsPrefix(<<"A new adventure begins!\n\n", nd.narrative>>,
                      ev'.result.text)
          /\ StoreView'[k.user] =
               [present |-> TRUE, story_log |-> <<(<<nd.narrative>>)>>,
                inventory |-> nd.new_inventory]
          /\ ADVENTURE_SESSIONS'[k.user] # ADVENTURE_SESSIONS[k.user]
          /\ ev'.replaced = StoreView[k.user].story_log
          /\ \A v \in Users \ {k.user} : StoreView'[v] = StoreView[v]]_vars

\* the later start has replaced a session that had already advanced
C18_Witness ==
  /\ ev.op = "start"
  /\ Succeeded(ev)
  /\ Len(ev.replaced) = 3
  /\ HasSession(ev.user)
  /\ Len(SessionOf(ev.user).story_log) = 1
  /\ started[ev.user]

\* C19: a step of any operation called for user u (call or resumption,
\* returning or raising) leaves every other user's session as it was: same
\* existence, same story_log, same inventory.
C19_OtherUsersUntouched ==
  [][\A v \in Users :
       v # ev'.user
       => /\ StoreView'[v].present = StoreView[v].present
          /\ StoreView'[v].story_log = StoreView[v].story_log
          /\ StoreView'[v].inventory = StoreView[v].inventory
          /\ HasSession(v) => heap'[ADVENTURE_SESSIONS'[v]] = SessionOf(v)]_vars

\* u1's session was reset while u2 holds a session that has advanced
C19_Witness ==
  /\ ev.op = "reset"
  /\ ev.user = "u1"
  /\ ev.result.text = ResetDoneMsg
  /\ ~HasSession("u1")
  /\ HasSession("u2")
  /\ Len(SessionOf("u2").story_log) = 3
  /\ SessionOf("u2").inventory = <<"torch", "key">>
====
